---- MODULE Spec2Model ----
(***************************************************************************)
(* tarbu (main.go): validation of a backup configuration, concurrent      *)
(* per-entry archive creation with tar, generation pruning, and the       *)
(* collection of per-entry results over an unbuffered channel.            *)
(*                                                                         *)
(* File names are sequences of one-character strings, so that the glob    *)
(* pattern, filepath.Ext and strconv.ParseInt act on real text.  Only the  *)
(* base name of a file in config.Dst is kept: every path the program      *)
(* builds is filepath.Join(config.Dst, base).                             *)
(***************************************************************************)
EXTENDS Integers, Sequences, FiniteSets, TLC

\* ------------------------------------------------------------------ bounds
MaxKeepGen == 2      \* config.KeepGen ranges over -1 .. MaxKeepGen
MaxClock == 11       \* time.Now().Unix() ranges over ClockStart .. MaxClock
ClockStart == MaxClock - 1   \* the second at which main starts

\* ------------------------------------------------------------- text helpers
_Suffix == <<".", "t", "a", "r", ".", "g", "z", ".">>

DigitChars == <<"0", "1", "2", "3", "4", "5", "6", "7", "8", "9">>

IsDigit(c) == \E d \in 1..10 : DigitChars[d] = c

DigitVal(c) == (CHOOSE d \in 1..10 : DigitChars[d] = c) - 1

\* fmt.Sprintf("%d", n)
RECURSIVE FormatInt(_)
FormatInt(n) ==
    IF n < 0 THEN <<"-">> \o FormatInt(0 - n)
    ELSE IF n < 10 THEN <<DigitChars[n + 1]>>
    ELSE FormatInt(n \div 10) \o <<DigitChars[(n % 10) + 1]>>

RECURSIVE DigitsValue(_)
DigitsValue(s) ==
    IF s = <<>> THEN 0
    ELSE 10 * DigitsValue(SubSeq(s, 1, Len(s) - 1)) + DigitVal(s[Len(s)])

\* strconv.ParseInt(s, 10, 64): an optional sign, then one or more decimal
\* digits; anything else is a syntax error.  (The digit runs of the model are
\* far below 2^63, so the range error cannot arise.)
ParseInt(s) ==
    LET signed == s # <<>> /\ s[1] \in {"+", "-"}
        body == IF signed THEN Tail(s) ELSE s
        ok == body # <<>> /\ \A i \in 1..Len(body) : IsDigit(body[i])
    IN  [ok |-> ok,
         val |-> IF ~ok THEN 0
                 ELSE IF signed /\ s[1] = "-" THEN 0 - DigitsValue(body)
                 ELSE DigitsValue(body)]

\* filepath.Ext(path): the suffix beginning at the final dot of the last path
\* element, empty when that element has no dot.
Ext(path) ==
    LET dots == {i \in 1..Len(path) :
                    /\ path[i] = "."
                    /\ \A j \in i..Len(path) : path[j] # "/"}
    IN  IF dots = {} THEN <<>>
        ELSE LET last == CHOOSE i \in dots : \A j \in dots : j <= i
             IN  SubSeq(path, last, Len(path))

\* filepath.Match for the pattern syntax the model's names can contain:
\* '*' (any run of non-separator characters), '?' (one such character) and
\* literal characters.
RECURSIVE Match(_, _)
Match(p, s) ==
    IF p = <<>> THEN s = <<>>
    ELSE IF Head(p) = "*"
         THEN \/ Match(Tail(p), s)
              \/ s # <<>> /\ Head(s) # "/" /\ Match(p, Tail(s))
    ELSE IF Head(p) = "?"
         THEN s # <<>> /\ Head(s) # "/" /\ Match(Tail(p), Tail(s))
    ELSE s # <<>> /\ Head(s) = Head(p) /\ Match(Tail(p), Tail(s))

\* filepath.ErrBadPattern: a '[' whose character class is never closed by a
\* ']' after at least one class character.
BadPattern(p) ==
    \E i \in 1..Len(p) :
        /\ p[i] = "["
        /\ ~ \E j \in (i + 2)..Len(p) : p[j] = "]"

\* filepath.Glob(pattern) over the directory's files: the pattern is
\* validated first, then every directory entry is matched against it.
Glob(pattern, dir) ==
    IF BadPattern(pattern) THEN [err |-> TRUE, matchs |-> {}]
    ELSE [err |-> FALSE, matchs |-> {f \in dir : Match(pattern, f)}]

\* ------------------------------------------------- inputs of the model
NameA == <<"a">>
NameB == <<"b">>
NameAB == NameA \o _Suffix \o <<"b">>     \* "a.tar.gz.b"
NameBad == <<"[">>                        \* a name that is a bad pattern

\* config.Entries, by entry name (backupEntry.Path is only handed to tar,
\* whose success or failure is an input of the Tar action).
EntryLists ==
    { <<>>, <<NameA>>, <<NameA, NameB>>, <<NameB, NameA>>, <<NameA, NameAB>>,
      <<NameA, NameA>>, <<NameBad, NameA>>, <<NameA, NameB, NameB, NameA>> }

KeepGens == {-1} \cup (0..MaxKeepGen)

\* A bundle file name: fmt.Sprintf("%s%s%d", ent.Name, _Suffix, now)
BundleName(name, ts) == name \o _Suffix \o FormatInt(ts)

\* Files that may lie in config.Dst before the run: two bundles of "a" whose
\* timestamps differ in digit count, a bundle stamped later than the run (the
\* clock was set back), a file with a non-numeric last segment, and a file
\* with a further dotted segment after the digits.
InitialFiles ==
    { BundleName(NameA, 9), BundleName(NameA, 10), BundleName(NameA, 13),
      NameA \o _Suffix \o <<"x">>,
      BundleName(NameA, 9) \o <<".">> \o FormatInt(12) }

DstStats == {"missing", "file", "readonly", "dir"}

\* f is an archive bundle of the entry called name: name, the separator, then
\* one run of decimal digits.
IsBundleOf(f, name) ==
    LET k == Len(name) + Len(_Suffix)
    IN  /\ Len(f) > k
        /\ SubSeq(f, 1, k) = name \o _Suffix
        /\ \A j \in (k + 1)..Len(f) : IsDigit(f[j])

\* The generation timestamp of a bundle of the entry called name.
BundleTs(f, name) == DigitsValue(SubSeq(f, Len(name) + Len(_Suffix) + 1, Len(f)))

\* The generation set of the entry called name among the files of dir.
GenSet(name, dir) == {f \in dir : IsBundleOf(f, name)}

\* ------------------------------------------------------------------ state
VARIABLES
    config,     \* backupConfig: [KeepGen, Entries]
    dstStat,    \* what os.Stat / syscall.Access find at config.Dst
    files,      \* base names of the files in config.Dst
    files0,     \* the files in config.Dst when main started (history)
    clock,      \* time.Now().Unix()
    mainpc,     \* position of main / backup
    fatalErr,   \* the error handed to log.Fatalln, "" when none
    fatalName,  \* the entry name that error carries, <<>> when it has none
    spawnIdx,   \* loop index i of backup's spawning loop (1-based)
    wg,         \* sync.WaitGroup counter
    closerpc,   \* position of the goroutine of lines 157-160
    closed,     \* rch has been closed
    wpc,        \* position of each backupImpl goroutine
    tgz,        \* backupImpl's tgz (base name), <<>> before it is computed
    listing,    \* the set filepath.Glob returned (history)
    matchs,     \* backupImpl's matchs slice
    removed,    \* files os.Remove deleted for this worker, in order (history)
    failedAt,   \* the file whose os.Remove failed, <<>> when none (history)
    res,        \* the result a worker is sending: "none" or the error kind
    outcomes,   \* results the range loop of backup received, in order
    tarRes,     \* how cmd.Run ended for a worker: "none", "ok", "failed" (history)
    genAfterTar,\* the entry's generation set right after cmd.Run (history)
    crashed     \* the process died of an unrecovered panic

vars == <<config, dstStat, files, files0, clock, mainpc, fatalErr, fatalName, spawnIdx,
          wg, closerpc, closed, wpc, tgz, listing, matchs, removed, failedAt,
          res, outcomes, tarRes, genAfterTar, crashed>>

N == Len(config.Entries)
Workers == 1..N

Init ==
    /\ config \in [KeepGen : KeepGens, Entries : EntryLists]
    /\ dstStat \in DstStats
    /\ files \in SUBSET InitialFiles
    /\ files0 = files
    /\ clock = ClockStart
    /\ mainpc = "isValid"
    /\ fatalErr = ""
    /\ fatalName = <<>>
    /\ spawnIdx = 1
    /\ wg = 0
    /\ closerpc = "none"
    /\ closed = FALSE
    /\ wpc = [i \in Workers |-> "idle"]
    /\ tgz = [i \in Workers |-> <<>>]
    /\ listing = [i \in Workers |-> {}]
    /\ matchs = [i \in Workers |-> <<>>]
    /\ removed = [i \in Workers |-> <<>>]
    /\ failedAt = [i \in Workers |-> <<>>]
    /\ res = [i \in Workers |-> "none"]
    /\ outcomes = <<>>
    /\ tarRes = [i \in Workers |-> "none"]
    /\ genAfterTar = [i \in Workers |-> {}]
    /\ crashed = FALSE

\* The process is alive: it has neither exited nor died of a panic.
Running == ~crashed /\ mainpc \notin {"fatal", "exited"}

\* ------------------------------------------------------------- validation
\* isDstWritable: os.Stat, IsDir, syscall.Access(W_OK), in this order.
isDstWritable(stat) ==
    IF stat = "missing" THEN "stat"
    ELSE IF stat = "file" THEN "notdir"
    ELSE IF stat = "readonly" THEN "access"
    ELSE ""

\* isNameDuplicated reporting the last repeated entry instead of the first.
isNameDuplicated_Last(entries) ==
    LET dup == {i \in 1..Len(entries) : \E j \in 1..(i - 1) : entries[j] = entries[i]}
    IN  IF dup = {} THEN 0 ELSE CHOOSE i \in dup : \A j \in dup : j <= i

\* isNameDuplicated: the index of the first entry whose name is already in
\* the map m, 0 when there is none.
isNameDuplicated(entries) ==
    LET dup == {i \in 1..Len(entries) : \E j \in 1..(i - 1) : entries[j] = entries[i]}
    IN  IF dup = {} THEN 0 ELSE CHOOSE i \in dup : \A j \in dup : i <= j

\* isValid with its two checks in the other order.
isValid_DuplicateFirst(cfg, stat) ==
    IF isNameDuplicated(cfg.Entries) # 0 THEN "duplicated"
    ELSE isDstWritable(stat)

\* isValid without its second check.
isValid_NoDuplicateCheck(cfg, stat) ==
    IF isDstWritable(stat) # "" THEN isDstWritable(stat) ELSE ""

\* isValid: isDstWritable first, then isNameDuplicated.
isValid(cfg, stat) ==
    IF isDstWritable(stat) # "" THEN isDstWritable(stat)
    ELSE IF isNameDuplicated(cfg.Entries) # 0 THEN "duplicated"
    ELSE ""

\* main, lines 175-179: log.Fatalln on an invalid config, else backup(config).
Validate ==
    /\ mainpc = "isValid"
    /\ fatalErr' = isValid(config, dstStat)
    /\ fatalName' = IF isValid(config, dstStat) = "duplicated"
                    THEN config.Entries[isNameDuplicated(config.Entries)]
                    ELSE <<>>
    /\ mainpc' = IF isValid(config, dstStat) # "" THEN "fatal" ELSE "spawn"
    /\ UNCHANGED <<config, dstStat, tarRes, genAfterTar, files, files0, clock, spawnIdx, wg, closerpc,
                   closed, wpc, tgz, listing, matchs, removed, failedAt, res,
                   outcomes, crashed>>

\* The wall clock advances.
Tick ==
    /\ Running
    /\ mainpc # "isValid"
    /\ clock < MaxClock
    /\ clock' = clock + 1
    /\ UNCHANGED <<config, dstStat, tarRes, genAfterTar, files, files0, mainpc, fatalErr, fatalName, spawnIdx, wg,
                   closerpc, closed, wpc, tgz, listing, matchs, removed, failedAt,
                   res, outcomes, crashed>>

\* ----------------------------------------------------------------- backup
\* backup, lines 152-155: wg.Add(1); go backupImpl(rch, wg, i, config).
Spawn ==
    /\ Running
    /\ mainpc = "spawn"
    /\ spawnIdx <= N
    /\ wg' = wg + 1
    /\ wpc' = [wpc EXCEPT ![spawnIdx] = "start"]
    /\ spawnIdx' = spawnIdx + 1
    /\ UNCHANGED <<config, dstStat, tarRes, genAfterTar, files, files0, clock, mainpc, fatalErr, fatalName,
                   closerpc, closed, tgz, listing, matchs, removed, failedAt,
                   res, outcomes, crashed>>

\* backup, lines 157-160: the goroutine that waits and closes is started and
\* main enters the range loop.
SpawnCloser ==
    /\ Running
    /\ mainpc = "spawn"
    /\ spawnIdx > N
    /\ closerpc' = "wait"
    /\ mainpc' = "range"
    /\ UNCHANGED <<config, dstStat, tarRes, genAfterTar, files, files0, clock, fatalErr, fatalName, spawnIdx, wg,
                   closed, wpc, tgz, listing, matchs, removed, failedAt, res,
                   outcomes, crashed>>

\* line 158: wg.Wait() returns once the counter is zero.
Wait ==
    /\ Running
    /\ closerpc = "wait"
    /\ wg = 0
    /\ closerpc' = "close"
    /\ UNCHANGED <<config, dstStat, tarRes, genAfterTar, files, files0, clock, mainpc, fatalErr, fatalName,
                   spawnIdx, wg, closed, wpc, tgz, listing, matchs, removed,
                   failedAt, res, outcomes, crashed>>

\* line 159: close(rch).
Close ==
    /\ Running
    /\ closerpc = "close"
    /\ closed' = TRUE
    /\ closerpc' = "done"
    /\ UNCHANGED <<config, dstStat, tarRes, genAfterTar, files, files0, clock, mainpc, fatalErr, fatalName,
                   spawnIdx, wg, wpc, tgz, listing, matchs, removed, failedAt,
                   res, outcomes, crashed>>

\* lines 162-166, one iteration: rch is unbuffered, so a worker's send and the
\* range loop's receive are one rendezvous; the loop body only prints.
Deliver(i) ==
    /\ Running
    /\ mainpc = "range"
    /\ ~closed
    /\ wpc[i] = "send"
    /\ outcomes' = Append(outcomes, [name |-> config.Entries[i], err |-> res[i]])
    /\ wpc' = [wpc EXCEPT ![i] = "ret"]
    /\ UNCHANGED <<config, dstStat, tarRes, genAfterTar, files, files0, clock, mainpc, fatalErr, fatalName,
                   spawnIdx, wg, closerpc, closed, tgz, listing, matchs, removed,
                   failedAt, res, crashed>>

\* line 162 on a closed channel: the range loop ends, backup returns and main
\* returns, which ends the process and every goroutine in it.
RangeEnd ==
    /\ Running
    /\ mainpc = "range"
    /\ closed
    /\ mainpc' = "exited"
    /\ UNCHANGED <<config, dstStat, tarRes, genAfterTar, files, files0, clock, fatalErr, fatalName, spawnIdx, wg,
                   closerpc, closed, wpc, tgz, listing, matchs, removed, failedAt,
                   res, outcomes, crashed>>

\* ------------------------------------------------------------- backupImpl
\* lines 120-124: ent, now and tgz.
Start(i) ==
    /\ Running
    /\ wpc[i] = "start"
    /\ tgz' = [tgz EXCEPT ![i] = BundleName(config.Entries[i], clock)]
    /\ wpc' = [wpc EXCEPT ![i] = "tar"]
    /\ UNCHANGED <<config, dstStat, tarRes, genAfterTar, files, files0, clock, mainpc, fatalErr, fatalName,
                   spawnIdx, wg, closerpc, closed, listing, matchs, removed,
                   failedAt, res, outcomes, crashed>>

\* What "tar zcf tgz path" can do: write the archive and exit 0 ("ok"); exit
\* non-zero after it created the archive file ("failPartial", e.g. an
\* unreadable source path); exit non-zero without creating it ("failClean",
\* e.g. tar cannot be started).
TarResults == {"ok", "failPartial", "failClean"}

\* Tar with the early return of lines 127-128 dropped: the worker goes on to
\* list and prune after a failed cmd.Run.
Tar_IgnoreError(i) ==
    /\ Running
    /\ wpc[i] = "tar"
    /\ \E r \in TarResults :
        /\ files' = IF r = "failClean" THEN files ELSE files \cup {tgz[i]}
        /\ res' = [res EXCEPT ![i] = IF r = "ok" THEN "none" ELSE "tar"]
        /\ wpc' = [wpc EXCEPT ![i] = "glob"]
        /\ tarRes' = [tarRes EXCEPT ![i] = IF r = "ok" THEN "ok" ELSE "failed"]
    /\ genAfterTar' = [genAfterTar EXCEPT ![i] = GenSet(config.Entries[i], files')]
    /\ UNCHANGED <<config, dstStat, files0, clock, mainpc, fatalErr, fatalName, spawnIdx, wg,
                   closerpc, closed, tgz, listing, matchs, removed, failedAt,
                   outcomes, crashed>>

\* lines 125-129: cmd.Run(); on an error the result is sent and the worker
\* returns.  tar truncates and rewrites tgz when the file already exists.
Tar(i) ==
    /\ Running
    /\ wpc[i] = "tar"
    /\ \E r \in TarResults :
        /\ files' = IF r = "failClean" THEN files ELSE files \cup {tgz[i]}
        /\ res' = [res EXCEPT ![i] = IF r = "ok" THEN "none" ELSE "tar"]
        /\ wpc' = [wpc EXCEPT ![i] = IF r = "ok" THEN "glob" ELSE "send"]
        /\ tarRes' = [tarRes EXCEPT ![i] = IF r = "ok" THEN "ok" ELSE "failed"]
    /\ genAfterTar' = [genAfterTar EXCEPT ![i] = GenSet(config.Entries[i], files')]
    /\ UNCHANGED <<config, dstStat, files0, clock, mainpc, fatalErr, fatalName, spawnIdx, wg,
                   closerpc, closed, tgz, listing, matchs, removed, failedAt,
                   outcomes, crashed>>

\* The pattern built without the entry's name.
Pattern_AnyName(name) == <<"*">> \o _Suffix \o <<"*">>

\* The pattern of line 131: ent.Name + _Suffix + "*".
Pattern(name) == name \o _Suffix \o <<"*">>

\* lines 131-135: filepath.Glob; on an error the result is sent.
GlobStep(i) ==
    /\ Running
    /\ wpc[i] = "glob"
    /\ LET g == Glob(Pattern(config.Entries[i]), files)
       IN  /\ listing' = [listing EXCEPT ![i] = g.matchs]
           /\ res' = [res EXCEPT ![i] = IF g.err THEN "glob" ELSE "none"]
           /\ wpc' = [wpc EXCEPT ![i] = IF g.err THEN "send" ELSE "sort"]
    /\ UNCHANGED <<config, dstStat, tarRes, genAfterTar, files, files0, clock, mainpc, fatalErr, fatalName,
                   spawnIdx, wg, closerpc, closed, tgz, matchs, removed, failedAt,
                   outcomes, crashed>>

\* The timestamp tsSortable.Less reads from a path:
\* strconv.ParseInt(filepath.Ext(p)[1:], 10, 64).  Not ok when Less panics
\* (a parse error, or slicing an empty extension).
ParseTs(p) ==
    IF Ext(p) = <<>> THEN [ok |-> FALSE, val |-> 0]
    ELSE ParseInt(Tail(Ext(p)))

\* Less comparing the digit strings as text instead of the parsed integers.
RECURSIVE LexLess(_, _)
LexLess(s, t) ==
    IF t = <<>> THEN FALSE
    ELSE IF s = <<>> THEN TRUE
    ELSE IF Head(s) = Head(t) THEN LexLess(Tail(s), Tail(t))
    ELSE DigitVal(Head(s)) < DigitVal(Head(t))

Less_Lexical(p, q) == LexLess(Tail(Ext(p)), Tail(Ext(q)))

\* Less with its comparison turned round.
Less_Reversed(p, q) == ParseTs(q).val < ParseTs(p).val

\* tsSortable.Less on two paths whose timestamps parse.
Less(p, q) == ParseTs(p).val < ParseTs(q).val

\* sort.Sort calls Less on every element of a slice of two or more elements,
\* so it panics exactly when such a slice holds a path Less cannot parse.
SortPanics(S) == Cardinality(S) >= 2 /\ \E f \in S : ~ParseTs(f).ok

\* The orders sort.Sort can leave the slice in: every arrangement of the
\* elements in which no element is Less than an earlier one (sort.Sort is not
\* stable, elements with equal timestamps end in any order).
RECURSIVE SortResults(_)
SortResults(S) ==
    IF S = {} THEN {<<>>}
    ELSE UNION { { <<m>> \o t : t \in SortResults(S \ {m}) } :
                 m \in {x \in S : \A y \in S : ~Less(y, x)} }

\* line 136: sort.Sort(tsSortable(matchs)).
Sort(i) ==
    /\ Running
    /\ wpc[i] = "sort"
    /\ ~SortPanics(listing[i])
    /\ \E s \in SortResults(listing[i]) : matchs' = [matchs EXCEPT ![i] = s]
    /\ wpc' = [wpc EXCEPT ![i] = "loop"]
    /\ UNCHANGED <<config, dstStat, tarRes, genAfterTar, files, files0, clock, mainpc, fatalErr, fatalName,
                   spawnIdx, wg, closerpc, closed, tgz, listing, removed,
                   failedAt, res, outcomes, crashed>>

\* lines 109-114: the panic of Less inside sort.Sort.
SortPanic(i) ==
    /\ Running
    /\ wpc[i] = "sort"
    /\ SortPanics(listing[i])
    /\ wpc' = [wpc EXCEPT ![i] = "panic"]
    /\ UNCHANGED <<config, dstStat, tarRes, genAfterTar, files, files0, clock, mainpc, fatalErr, fatalName,
                   spawnIdx, wg, closerpc, closed, tgz, listing, matchs, removed,
                   failedAt, res, outcomes, crashed>>

\* Prune that goes on with the next file after a failed os.Remove instead of
\* returning.
Prune_ContinueOnError(i) ==
    /\ Running
    /\ wpc[i] = "loop"
    /\ Len(matchs[i]) > config.KeepGen
    /\ matchs[i] # <<>>
    /\ LET f == Head(matchs[i])
       IN  \E ok \in {b \in BOOLEAN : b => f \in files} :
             IF ok
             THEN /\ files' = files \ {f}
                  /\ removed' = [removed EXCEPT ![i] = Append(@, f)]
                  /\ matchs' = [matchs EXCEPT ![i] = Tail(@)]
                  /\ UNCHANGED <<wpc, res, failedAt>>
             ELSE /\ failedAt' = [failedAt EXCEPT ![i] = f]
                  /\ matchs' = [matchs EXCEPT ![i] = Tail(@)]
                  /\ UNCHANGED <<files, removed, wpc, res>>
    /\ UNCHANGED <<config, dstStat, tarRes, genAfterTar, files0, clock, mainpc,
                   fatalErr, fatalName, spawnIdx, wg, closerpc, closed, tgz, listing,
                   outcomes, crashed>>

\* lines 137-143, one iteration with a non-empty slice: os.Remove(matchs[0]).
\* Removing a file that is no longer there fails; removing one that is there
\* succeeds or fails (permissions).
Prune(i) ==
    /\ Running
    /\ wpc[i] = "loop"
    /\ Len(matchs[i]) > config.KeepGen
    /\ matchs[i] # <<>>
    /\ LET f == Head(matchs[i])
       IN  \E ok \in {b \in BOOLEAN : b => f \in files} :
             IF ok
             THEN /\ files' = files \ {f}
                  /\ removed' = [removed EXCEPT ![i] = Append(@, f)]
                  /\ matchs' = [matchs EXCEPT ![i] = Tail(@)]
                  /\ UNCHANGED <<wpc, res, failedAt>>
             ELSE /\ failedAt' = [failedAt EXCEPT ![i] = f]
                  /\ res' = [res EXCEPT ![i] = "remove"]
                  /\ wpc' = [wpc EXCEPT ![i] = "send"]
                  /\ UNCHANGED <<files, removed, matchs>>
    /\ UNCHANGED <<config, dstStat, tarRes, genAfterTar, files0, clock, mainpc, fatalErr, fatalName, spawnIdx, wg,
                   closerpc, closed, tgz, listing, outcomes, crashed>>

\* line 138 with an empty slice (only a negative KeepGen lets the loop
\* condition hold then): matchs[0] panics, index out of range.
IndexPanic(i) ==
    /\ Running
    /\ wpc[i] = "loop"
    /\ Len(matchs[i]) > config.KeepGen
    /\ matchs[i] = <<>>
    /\ wpc' = [wpc EXCEPT ![i] = "panic"]
    /\ UNCHANGED <<config, dstStat, tarRes, genAfterTar, files, files0, clock, mainpc, fatalErr, fatalName,
                   spawnIdx, wg, closerpc, closed, tgz, listing, matchs, removed,
                   failedAt, res, outcomes, crashed>>

\* PruneDone with the loop condition off by one: the loop is left while one
\* file too many is still listed.
PruneDone_OffByOne(i) ==
    /\ Running
    /\ wpc[i] = "loop"
    /\ ~(Len(matchs[i]) > config.KeepGen + 1)
    /\ res' = [res EXCEPT ![i] = "nil"]
    /\ wpc' = [wpc EXCEPT ![i] = "send"]
    /\ UNCHANGED <<config, dstStat, tarRes, genAfterTar, files, files0, clock,
                   mainpc, fatalErr, fatalName, spawnIdx, wg, closerpc, closed, tgz, listing,
                   matchs, removed, failedAt, outcomes, crashed>>

\* lines 137 and 145: the loop condition fails, the nil result is sent.
PruneDone(i) ==
    /\ Running
    /\ wpc[i] = "loop"
    /\ ~(Len(matchs[i]) > config.KeepGen)
    /\ res' = [res EXCEPT ![i] = "nil"]
    /\ wpc' = [wpc EXCEPT ![i] = "send"]
    /\ UNCHANGED <<config, dstStat, tarRes, genAfterTar, files, files0, clock, mainpc, fatalErr, fatalName,
                   spawnIdx, wg, closerpc, closed, tgz, listing, matchs, removed,
                   failedAt, outcomes, crashed>>

\* line 119, defer wg.Done(): runs when backupImpl returns and also while a
\* panic unwinds it.
Done(i) ==
    /\ Running
    /\ wpc[i] \in {"ret", "panic"}
    /\ wg' = wg - 1
    /\ wpc' = [wpc EXCEPT ![i] = IF wpc[i] = "ret" THEN "done" ELSE "fatalpanic"]
    /\ UNCHANGED <<config, dstStat, tarRes, genAfterTar, files, files0, clock, mainpc, fatalErr, fatalName,
                   spawnIdx, closerpc, closed, tgz, listing, matchs, removed,
                   failedAt, res, outcomes, crashed>>

\* A panic nobody recovers ends the process once its deferred calls have run.
Crash(i) ==
    /\ Running
    /\ wpc[i] = "fatalpanic"
    /\ crashed' = TRUE
    /\ UNCHANGED <<config, dstStat, tarRes, genAfterTar, files, files0, clock, mainpc, fatalErr, fatalName,
                   spawnIdx, wg, closerpc, closed, wpc, tgz, listing, matchs,
                   removed, failedAt, res, outcomes>>

Next ==
    \/ Validate
    \/ Tick
    \/ Spawn
    \/ SpawnCloser
    \/ Wait
    \/ Close
    \/ RangeEnd
    \/ \E i \in Workers :
        \/ Deliver(i)
        \/ Start(i)
        \/ Tar(i)
        \/ GlobStep(i)
        \/ Sort(i)
        \/ SortPanic(i)
        \/ Prune(i)
        \/ IndexPanic(i)
        \/ PruneDone(i)
        \/ Done(i)
        \/ Crash(i)

Spec == Init /\ [][Next]_vars

TypeOK ==
    /\ wg \in 0..N
    /\ closed \in BOOLEAN
    /\ crashed \in BOOLEAN

\* ----------------------------------------------------------- properties
NameOf(i) == config.Entries[i]

Range(q) == {q[k] : k \in 1..Len(q)}

Min(a, b) == IF a < b THEN a ELSE b

IsPrefix(p, q) == Len(p) <= Len(q) /\ SubSeq(q, 1, Len(p)) = p

\* The name holds no glob metacharacter and no path separator.
PlainName(name) == \A k \in 1..Len(name) : name[k] \notin {"*", "?", "[", "\\", "/"}

\* How many results the collector has received for the entry called name.
OutcomeCount(name) == Cardinality({k \in 1..Len(outcomes) : outcomes[k].name = name})

\* The run is over: backup returned, or the process died of a panic.
RunOver == mainpc = "exited" \/ crashed

\* Worker i stands at the send of its nil result (line 145).
SendsSuccess(i) == wpc[i] = "send" /\ res[i] = "nil"

\* Files that workers other than i have removed.
RemovedByOthers(i) == UNION {Range(removed[j]) : j \in Workers \ {i}}

\* C1: one call of backup delivers exactly one outcome for each entry name:
\* never two at any time, and none missing once the run is over.
C1_ExactlyOneOutcomePerEntry ==
    \A i \in Workers :
        /\ OutcomeCount(NameOf(i)) <= 1
        /\ RunOver => OutcomeCount(NameOf(i)) = 1

\* C2: when a prune has ended with every deletion succeeding, the entry's
\* generation set is the min(m, k) numerically newest of the m members it had
\* after archive creation.
C2_PruneKeepsNewest ==
    \A i \in Workers :
        SendsSuccess(i) =>
            LET G1 == genAfterTar[i]
                G == GenSet(NameOf(i), files)
            IN  /\ G \subseteq G1
                /\ Cardinality(G) = Min(Cardinality(G1), config.KeepGen)
                /\ \A x \in G1 \ G : \A y \in G :
                      BundleTs(x, NameOf(i)) <= BundleTs(y, NameOf(i))

\* C3: a worker sends a nil result only if its archive was created, none of
\* its deletions failed, and the entry's generation set in the destination
\* has at most KeepGen members at that moment.
C3_SuccessMeansWithinLimit ==
    \A i \in Workers :
        SendsSuccess(i) =>
            /\ tarRes[i] = "ok"
            /\ failedAt[i] = <<>>
            /\ Cardinality(GenSet(NameOf(i), files)) <= config.KeepGen

\* C3 witness: a worker sends success after pruning while a sibling is still
\* at work.
C3_Witness ==
    \E i \in Workers : \E j \in Workers \ {i} :
        /\ SendsSuccess(i)
        /\ removed[i] # <<>>
        /\ wpc[j] \in {"tar", "glob", "sort", "loop"}

C5_MalformedIsReported ==
    \A i \in Workers :
        ((\E f \in listing[i] : ~ParseTs(f).ok) /\ wpc[i] # "sort") =>
            /\ wpc[i] \in {"send", "ret", "done"}
            /\ res[i] = "malformed"
            /\ ~crashed

\* C6: a worker whose cmd.Run failed sends the tar error and neither lists
\* nor removes anything, so every file missing from the destination was
\* removed by another worker; and a worker removes files only after its own
\* cmd.Run succeeded.
C6_NoPruneWithoutArchive ==
    \A i \in Workers :
        /\ tarRes[i] = "failed" =>
              /\ wpc[i] \in {"send", "ret", "done"}
              /\ res[i] = "tar"
              /\ listing[i] = {}
              /\ removed[i] = <<>>
              /\ files0 \ files \subseteq RemovedByOthers(i)
              /\ \A k \in 1..Len(outcomes) :
                    outcomes[k].name = NameOf(i) => outcomes[k].err = "tar"
        /\ (removed[i] # <<>> \/ listing[i] # {}) => tarRes[i] = "ok"

\* C6 witness: a worker whose cmd.Run failed has delivered its result and
\* finished; its entry had bundles before the run.
C6_Witness ==
    \E i \in Workers :
        /\ tarRes[i] = "failed"
        /\ wpc[i] = "done"
        /\ OutcomeCount(NameOf(i)) = 1
        /\ GenSet(NameOf(i), files0) # {}

\* C7: after a worker whose cmd.Run failed has reported, the entry's
\* generation set is what it was before the run.
C7_FailedTarLeavesNoFile ==
    \A i \in Workers :
        (tarRes[i] = "failed" /\ wpc[i] \in {"ret", "done"}) =>
            GenSet(NameOf(i), files) = GenSet(NameOf(i), files0)

\* The timestamps of a sequence of paths never decrease.
Ascending(q) ==
    \A a \in 1..Len(q) : \A b \in (a + 1)..Len(q) :
        ParseInt(Tail(Ext(q[a]))).val <= ParseInt(Tail(Ext(q[b]))).val

\* C8: once an os.Remove has failed, the worker sends that error and removes
\* nothing more: the failed file stays at the head of its slice, the files it
\* removed before followed by the ones still in the slice are the listing in
\* ascending timestamp order, and each file still in the slice is in the
\* destination unless another worker removed it.
C8_FailFastPrune ==
    \A i \in Workers :
        failedAt[i] # <<>> =>
            /\ wpc[i] \in {"send", "ret", "done"}
            /\ res[i] = "remove"
            /\ matchs[i] # <<>>
            /\ Head(matchs[i]) = failedAt[i]
            /\ Range(removed[i] \o matchs[i]) = listing[i]
            /\ Len(removed[i] \o matchs[i]) = Cardinality(listing[i])
            /\ Ascending(removed[i] \o matchs[i])
            /\ Range(matchs[i]) \subseteq files \cup RemovedByOthers(i)
            /\ Range(removed[i]) \cap files = {}
            /\ \A k \in 1..Len(outcomes) :
                  outcomes[k].name = NameOf(i) => outcomes[k].err = "remove"

\* C8 witness: a worker finished after a deletion failed that followed a
\* successful one, with two or more over-quota files left in its slice.
C8_Witness ==
    \E i \in Workers :
        /\ failedAt[i] # <<>>
        /\ removed[i] # <<>>
        /\ Len(matchs[i]) >= config.KeepGen + 2
        /\ config.KeepGen >= 0
        /\ wpc[i] = "done"

\* The number of digits of the timestamp of a bundle of the entry called name.
BundleDigits(f, name) == Len(f) - Len(name) - Len(_Suffix)

\* C9: of two bundles of a worker's entry whose timestamps differ in digit
\* count, the one with the smaller integer value stands first in the sorted
\* slice, and so is removed first.
C9_NumericOrder ==
    \A i \in Workers :
        LET q == removed[i] \o matchs[i]
            n == NameOf(i)
        IN  \A a \in 1..Len(q) : \A b \in 1..Len(q) :
                ( /\ IsBundleOf(q[a], n)
                  /\ IsBundleOf(q[b], n)
                  /\ BundleDigits(q[a], n) # BundleDigits(q[b], n)
                  /\ BundleTs(q[a], n) < BundleTs(q[b], n) )
                => a < b

\* C9 witness: the bundle stamped 9 has been removed while the one stamped 10
\* is still in the slice.
C9_Witness ==
    \E i \in Workers :
        /\ BundleName(NameOf(i), 9) \in Range(removed[i])
        /\ BundleName(NameOf(i), 10) \in Range(matchs[i])

\* C10: with a duplicated entry name main never gets past validation: no
\* worker is started, tar, the listing and os.Remove never run, and the
\* destination keeps its files.
C10_DuplicateAbortsBeforeWork ==
    isNameDuplicated(config.Entries) # 0 =>
        /\ mainpc \in {"isValid", "fatal"}
        /\ files = files0
        /\ wg = 0
        /\ outcomes = <<>>
        /\ \A i \in Workers :
              /\ wpc[i] = "idle"
              /\ tarRes[i] = "none"
              /\ listing[i] = {}
              /\ removed[i] = <<>>

\* C10 witness: validation has failed on the duplicated name, with files in
\* the destination.
C10_Witness ==
    /\ mainpc = "fatal"
    /\ fatalErr = "duplicated"
    /\ files # {}

\* Entry i repeats the name of an earlier entry.
Repeats(entries, i) == \E j \in 1..(i - 1) : entries[j] = entries[i]

\* C11: once validation has run on a writable destination, a list with a
\* repeated name has ended in the duplicate-name error carrying the name of
\* the earliest entry that repeats an earlier one, and a list of pairwise
\* distinct names has ended in no error.
C11_FirstDuplicateNamed ==
    (mainpc # "isValid" /\ dstStat = "dir") =>
        LET e == config.Entries
            rep == {i \in 1..Len(e) : Repeats(e, i)}
        IN  IF rep = {}
            THEN fatalErr = "" /\ fatalName = <<>> /\ mainpc # "fatal"
            ELSE /\ mainpc = "fatal"
                 /\ fatalErr = "duplicated"
                 /\ \E i \in rep : (\A k \in rep : i <= k) /\ fatalName = e[i]

\* C11 witness: validation has failed on a list in which two names repeat,
\* the first repeated one not being the one that occurs first.
C11_Witness ==
    /\ mainpc = "fatal"
    /\ config.Entries = <<NameA, NameB, NameB, NameA>>
    /\ fatalName = NameB

\* C12: validation reports a missing or non-directory destination as such, a
\* read-only directory as not writable, in both cases also when a name is
\* duplicated, reports the duplicate only for a writable directory, and
\* changes nothing.
C12_ValidationOrder ==
    mainpc # "isValid" =>
        /\ dstStat = "missing" => mainpc = "fatal" /\ fatalErr = "stat"
        /\ dstStat = "file" => mainpc = "fatal" /\ fatalErr = "notdir"
        /\ dstStat = "readonly" => mainpc = "fatal" /\ fatalErr = "access"
        /\ fatalErr = "duplicated" => dstStat = "dir"
        /\ mainpc = "fatal" =>
              /\ files = files0
              /\ wg = 0
              /\ outcomes = <<>>
              /\ \A i \in Workers : wpc[i] = "idle" /\ tarRes[i] = "none"

\* C12 witness: validation has failed on a read-only destination although a
\* name is duplicated too.
C12_Witness ==
    /\ mainpc = "fatal"
    /\ dstStat = "readonly"
    /\ \E i \in Workers : Repeats(config.Entries, i)
    /\ files # {}

\* C13: rch is closed only after every worker has delivered its result and
\* finished, by the closing goroutine alone; no worker stands at its send
\* once rch is closed; and backup returns only after the close, with every
\* delivered result received.
C13_ClosedAfterAllDelivered ==
    /\ closed =>
          /\ closerpc = "done"
          /\ \A i \in Workers : wpc[i] = "done" /\ OutcomeCount(NameOf(i)) = 1
    /\ mainpc = "exited" => closed /\ Len(outcomes) = N

\* A step of the program itself (the clock is not one).
ProgramStep ==
    \/ Spawn
    \/ SpawnCloser
    \/ Wait
    \/ Close
    \/ RangeEnd
    \/ \E i \in Workers :
        \/ Deliver(i) \/ Start(i) \/ Tar(i) \/ GlobStep(i) \/ Sort(i)
        \/ SortPanic(i) \/ Prune(i) \/ IndexPanic(i) \/ PruneDone(i)
        \/ Done(i) \/ Crash(i)

\* C14: until backup returns the process has not failed and some step of the
\* program can be taken, so that under fairness backup returns.
C14_NoFailureBeforeReturn ==
    mainpc \in {"spawn", "range"} => ~crashed /\ ENABLED ProgramStep

\* C15: cmd.Run never succeeds in writing a bundle path that was already a
\* file of the destination.
C15_NeverRewritesBundle ==
    [][\A i \in Workers :
          (tarRes[i] = "none" /\ tarRes'[i] = "ok") => tgz[i] \notin files]_vars

\* C16: every file a worker lists, and so every file it counts or removes, is
\* named exactly name + separator + one run of decimal digits.
C16_ListsOnlyBundles ==
    \A i \in Workers :
        \A f \in listing[i] \cup Range(removed[i]) : IsBundleOf(f, NameOf(i))

\* C17: while the archiver of one entry has not returned, a sibling whose
\* archiver has returned and whose result has not been received yet is still
\* on its way to deliver it: it has not panicked and the process is alive.
C17_SiblingStillDelivers ==
    \A i \in Workers : \A j \in Workers \ {i} :
        (wpc[i] = "tar" /\ tarRes[j] # "none" /\ OutcomeCount(NameOf(j)) = 0) =>
            /\ ~crashed
            /\ wpc[j] \notin {"panic", "fatalpanic"}

\* The timestamp Less reads from a path whose last segment parses.
TsOf(f) == ParseInt(Tail(Ext(f))).val

\* Worker i stands at the send of a retention error.
SendsRetentionError(i) == wpc[i] = "send" /\ res[i] \in {"remove", "malformed"}

\* C18 as stated, for a destination in which the worker lists bundles of its
\* entry only: whenever it sends a retention error, with KeepGen >= 0, the
\* bundle it created is in the destination.
C18_ArchiveNeverUndone ==
    \A i \in Workers :
        ( /\ SendsRetentionError(i)
          /\ config.KeepGen >= 0
          /\ \A f \in listing[i] : IsBundleOf(f, NameOf(i)) )
        => tgz[i] \in files

\* No other file worker i listed has a timestamp at or above the one of the
\* bundle the worker created.
CreatedIsNewest(i) == \A f \in listing[i] \ {tgz[i]} : TsOf(f) < TsOf(tgz[i])

\* C18 amended: when a worker sends a deletion error and no other file it
\* listed has a timestamp at or above the one of the bundle it created, the
\* worker has not removed that bundle, which is in the destination unless
\* another worker removed it.
C18_ArchiveKeptWhenNewest ==
    \A i \in Workers :
        (SendsRetentionError(i) /\ CreatedIsNewest(i)) =>
            /\ tgz[i] \notin Range(removed[i])
            /\ tgz[i] \in files \cup RemovedByOthers(i)

\* C18 witness: a worker sends a deletion error after a successful deletion,
\* its own bundle being the newest file it listed and still there.
C18_Witness ==
    \E i \in Workers :
        /\ SendsRetentionError(i)
        /\ CreatedIsNewest(i)
        /\ removed[i] # <<>>
        /\ config.KeepGen >= 0
        /\ tgz[i] \in files

\* C19: the pruning loop never reads matchs[0] of an empty slice.
C19_NeverIndexesEmptySlice ==
    \A i \in Workers :
        (wpc[i] = "loop" /\ Len(matchs[i]) > config.KeepGen) => matchs[i] # <<>>

\* C20: with KeepGen >= 1 and no bundle of the entry stamped later than the
\* one the worker created lying in the destination before the run, a worker
\* that sends success has its bundle in the destination.
C20_SuccessKeepsCreated ==
    \A i \in Workers :
        ( /\ SendsSuccess(i)
          /\ config.KeepGen >= 1
          /\ \A f \in GenSet(NameOf(i), files0) :
                BundleTs(f, NameOf(i)) <= BundleTs(tgz[i], NameOf(i)) )
        => tgz[i] \in GenSet(NameOf(i), files)

====
